---- MODULE Spec2Model ----
(***************************************************************************)
(* Model of the tick engine of game-of-life (src/src/lib.rs): the Cell     *)
(* type, Game::new, Game::live_neighbour_count1, Game::compute_next (a     *)
(* rayon parallel map, one task per cell) and Game::tick.                  *)
(*                                                                         *)
(* A Grid (Vec<Cell>) is a sequence; Rust index x is position x + 1.       *)
(***************************************************************************)
EXTENDS Integers, Sequences, FiniteSets, TLC

\* ------------------------------------------------------------------ bounds
\* Random and small Custom games have width, height in 0..MaxDim.
MaxDim == 2
\* Custom grids of arbitrary cells have at most MaxCustomLen cells.
MaxCustomLen == 3
\* At most MaxTicks calls of tick() per game.
MaxTicks == 2

\* ------------------------------------------------------------------ cells
\* enum Cell { Alive(LivingState), Dead(DeathState) }, a value per variant.
AliveRemains == "Alive(Remains)"
AliveReproduction == "Alive(Reproduction)"
DeadRemains == "Dead(Remains)"
DeadOverpopulation == "Dead(Overpopulation)"
DeadUnderpopulation == "Dead(Underpopulation)"

Alive == {AliveRemains, AliveReproduction}
Dead == {DeadRemains, DeadOverpopulation, DeadUnderpopulation}
Cell == Alive \cup Dead

\* `if let Cell::Alive(_) = cell`
IsAlive(cell) == cell \in Alive

\* Vec::get: None outside 0..len-1, Some(&cell) inside.
None == "None"
get(g, x) == IF x >= 0 /\ x < Len(g) THEN g[x + 1] ELSE None
\* `if let Some(&Cell::Alive(_)) = self.grid.get(..)`
IsSomeAlive(v) == v \in Alive

\* `row < self.height - 1` on usize.  With height = 0 the subtraction
\* overflows: a release build wraps to usize::MAX (so the test is true), a
\* debug build panics (see Task).
RowBelowLast(row, height) == IF height = 0 THEN TRUE ELSE row < height - 1
ColBelowLast(col, width) == IF width = 0 THEN TRUE ELSE col < width - 1

B(p) == IF p THEN 1 ELSE 0

\* live_neighbour_count1 with the `col > 0` guard of the west neighbour lost:
\* in column 0 it reads the last cell of the row above.
live_neighbour_count1_unclipped_west(g, width, height, row, col) ==
  LET nw == col > 0 /\ row > 0
            /\ IsSomeAlive(get(g, (row - 1) * width + col - 1))
      w  == IsSomeAlive(get(g, row * width + (col - 1)))
      sw == col > 0 /\ RowBelowLast(row, height)
            /\ IsSomeAlive(get(g, (row + 1) * width + (col - 1)))
      ne == ColBelowLast(col, width) /\ row > 0
            /\ IsSomeAlive(get(g, (row - 1) * width + (col + 1)))
      e  == ColBelowLast(col, width)
            /\ IsSomeAlive(get(g, row * width + (col + 1)))
      se == ColBelowLast(col, width) /\ RowBelowLast(row, height)
            /\ IsSomeAlive(get(g, (row + 1) * width + (col + 1)))
      s  == RowBelowLast(row, height)
            /\ IsSomeAlive(get(g, (row + 1) * width + col))
      n  == row > 0
            /\ IsSomeAlive(get(g, (row - 1) * width + col))
  IN  B(nw) + B(w) + B(sw) + B(ne) + B(e) + B(se) + B(s) + B(n)

\* Game::live_neighbour_count1, reading grid g of a game width x height.
live_neighbour_count1(g, width, height, row, col) ==
  LET nw == col > 0 /\ row > 0
            /\ IsSomeAlive(get(g, (row - 1) * width + col - 1))
      w  == col > 0
            /\ IsSomeAlive(get(g, row * width + (col - 1)))
      sw == col > 0 /\ RowBelowLast(row, height)
            /\ IsSomeAlive(get(g, (row + 1) * width + (col - 1)))
      ne == ColBelowLast(col, width) /\ row > 0
            /\ IsSomeAlive(get(g, (row - 1) * width + (col + 1)))
      e  == ColBelowLast(col, width)
            /\ IsSomeAlive(get(g, row * width + (col + 1)))
      se == ColBelowLast(col, width) /\ RowBelowLast(row, height)
            /\ IsSomeAlive(get(g, (row + 1) * width + (col + 1)))
      s  == RowBelowLast(row, height)
            /\ IsSomeAlive(get(g, (row + 1) * width + col))
      n  == row > 0
            /\ IsSomeAlive(get(g, (row - 1) * width + col))
  IN  B(nw) + B(w) + B(sw) + B(ne) + B(e) + B(se) + B(s) + B(n)

\* next_state with overpopulation starting at 5 neighbours instead of 4.
next_state_overpopulation_from_5(cell, neighbour_count) ==
  LET alive == IsAlive(cell) IN
  IF neighbour_count \in 0..1 /\ alive THEN DeadUnderpopulation
  ELSE IF neighbour_count \in 5..8 /\ alive THEN DeadOverpopulation
  ELSE IF neighbour_count = 3 /\ ~alive THEN AliveReproduction
  ELSE IF cell = AliveReproduction THEN AliveRemains
  ELSE IF cell \in {DeadOverpopulation, DeadUnderpopulation} THEN DeadRemains
  ELSE cell

\* next_state whose fall-through arm returns the cell as it is, cause tag
\* included.
next_state_keeping_cause(cell, neighbour_count) ==
  LET alive == IsAlive(cell) IN
  IF neighbour_count \in 0..1 /\ alive THEN DeadUnderpopulation
  ELSE IF neighbour_count \in 4..8 /\ alive THEN DeadOverpopulation
  ELSE IF neighbour_count = 3 /\ ~alive THEN AliveReproduction
  ELSE cell

\* The match of compute_next (lib.rs 129-146) on one cell and its count.
next_state(cell, neighbour_count) ==
  LET alive == IsAlive(cell) IN
  IF neighbour_count \in 0..1 /\ alive THEN DeadUnderpopulation
  ELSE IF neighbour_count \in 4..8 /\ alive THEN DeadOverpopulation
  ELSE IF neighbour_count = 3 /\ ~alive THEN AliveReproduction
  ELSE IF cell = AliveReproduction THEN AliveRemains
  ELSE IF cell \in {DeadOverpopulation, DeadUnderpopulation} THEN DeadRemains
  ELSE cell

\* compute_cell with row and column exchanged (i = x % width, j = x / width).
compute_cell_transposed(g, width, height, x, cell) ==
  LET i == x % width
      j == x \div width
  IN  next_state(cell, live_neighbour_count1(g, width, height, i, j))

\* The body of the closure of compute_next for item (x, cell), reading the
\* grid g that self.grid holds while the task runs.
compute_cell(g, width, height, x, cell) ==
  LET i == x \div width
      j == x % width
  IN  next_state(cell, live_neighbour_count1(g, width, height, i, j))

\* ------------------------------------------------------------------ inputs
\* init_rand over the inclusive range 0..=width * height: one cell too many.
init_rand_inclusive(width, height) ==
  [1..(width * height + 1) -> {AliveRemains, DeadRemains}]

\* init_rand: every cell is Alive(Remains) or Dead(Remains), whatever the
\* probability decides for each of the width * height cells.
init_rand(width, height) == [1..width * height -> {AliveRemains, DeadRemains}]

\* start_grid of test_game_rules: alive at (x, y) = (1,0),(2,1),(0,2),(1,2),(2,2)
\* with x = index % width and y = index / width.
test_width == 3
test_height == 4
start_grid ==
  [k \in 1..test_width * test_height |->
    LET xy == <<(k - 1) % test_width, (k - 1) \div test_width>> IN
    IF xy \in {<<1, 0>>, <<2, 1>>, <<0, 2>>, <<1, 2>>, <<2, 2>>}
    THEN AliveRemains ELSE DeadRemains]

\* next_grid of test_game_rules, the grid the test expects after one tick.
test_next_grid ==
  [k \in 1..test_width * test_height |->
    LET xy == <<(k - 1) % test_width, (k - 1) \div test_width>> IN
    IF xy \in {<<2, 1>>, <<1, 2>>, <<2, 2>>} THEN AliveRemains
    ELSE IF xy \in {<<0, 1>>, <<1, 3>>} THEN AliveReproduction
    ELSE IF xy \in {<<1, 0>>, <<0, 2>>} THEN DeadUnderpopulation
    ELSE DeadRemains]

\* 3 x 3 grids whose centre is any Cell and whose ring has its first 0..8
\* cells Alive(Remains): every cell value meets every count 0..8.
ProbeGrids ==
  { [k \in 1..9 |-> IF k = 5 THEN c
                    ELSE IF k \in ring THEN AliveRemains ELSE DeadRemains] :
      c \in Cell, ring \in { 1..t : t \in 0..9 } }

SmallGrids == UNION { [1..n -> Cell] : n \in 0..MaxCustomLen }

Dims == 0..MaxDim

\* The calls new(width, height, init) that are made.
NewInputs ==
  { [width |-> w, height |-> h, init |-> "Random", grid |-> g] :
      w \in Dims, h \in Dims, g \in {<<>>} }
  \cup { [width |-> w, height |-> h, init |-> "Custom", grid |-> g] :
      w \in Dims, h \in Dims, g \in SmallGrids }
  \cup { [width |-> 3, height |-> 3, init |-> "Custom", grid |-> g] :
      g \in ProbeGrids }
  \cup { [width |-> w, height |-> test_height, init |-> "Custom", grid |-> start_grid] :
      w \in {test_width, test_width - 1} }

\* ------------------------------------------------------------------ state
VARIABLES
  phase,      \* "start": before new; "ready": a Game exists; "ticking": inside
              \* tick(); "panicked": new or tick panicked
  panic,      \* the panic message, "" while none
  args,       \* the arguments of the call of new
  width,      \* Game.width
  height,     \* Game.height
  grid,       \* Game.grid
  next_grid,  \* compute_next: the clone that the parallel iterator consumes
  pending,    \* compute_next: the items (indices) no task has taken yet
  out,        \* compute_next: the collected vector, None where not yet written
  writes,     \* compute_next: how many times each slot of out was written
  strategy,   \* how the latest tick() computes the next grid, "" before one
  pre,        \* the grid when the latest tick() began
  ticks       \* number of completed tick() calls

vars ==
  <<phase, panic, args, width, height, grid, next_grid, pending, out, writes,
    strategy, pre, ticks>>

NoArgs == [width |-> 0, height |-> 0, init |-> "None", grid |-> <<>>]

Init ==
  /\ phase = "start"
  /\ panic = ""
  /\ args = NoArgs
  /\ width = 0
  /\ height = 0
  /\ grid = <<>>
  /\ next_grid = <<>>
  /\ pending = {}
  /\ out = <<>>
  /\ writes = <<>>
  /\ strategy = ""
  /\ pre = <<>>
  /\ ticks = 0

\* The assertion weakened to width * height >= grid.len().
custom_ok_at_least(w, h, g) == w * h >= Len(g)

\* assert_eq!(width * height, grid.len(), "custom grid has expected dimensions")
custom_ok(w, h, g) == w * h = Len(g)

\* Game::new(a.width, a.height, a.init)
new(a) ==
  /\ args' = a
  /\ IF a.init = "Random"
     THEN \E g \in init_rand(a.width, a.height) :
            /\ phase' = "ready"
            /\ panic' = ""
            /\ width' = a.width
            /\ height' = a.height
            /\ grid' = g
     ELSE IF custom_ok(a.width, a.height, a.grid)
     THEN /\ phase' = "ready"
          /\ panic' = ""
          /\ width' = a.width
          /\ height' = a.height
          /\ grid' = a.grid
     ELSE /\ phase' = "panicked"
          /\ panic' = "custom grid has expected dimensions"
          /\ UNCHANGED <<width, height, grid>>
  /\ UNCHANGED <<next_grid, pending, out, writes, strategy, pre, ticks>>

\* The one call of new that constructs the game.
New ==
  /\ phase = "start"
  /\ \E a \in NewInputs : new(a)

\* Game::get_grid: &self.grid of an existing Game.
get_grid == grid

\* Game has no scheduler field and tick() has one body: compute_next, a
\* rayon into_par_iter().enumerate().map().collect().
Strategies == {"DataParallel"}

\* tick() enters compute_next: self.grid is cloned and the clone is handed
\* to the parallel iterator, one item (x, cell) per element.
TickStart ==
  /\ phase = "ready"
  /\ ticks < MaxTicks
  /\ phase' = "ticking"
  /\ \E s \in Strategies : strategy' = s
  /\ pre' = grid
  /\ next_grid' = grid
  /\ pending' = 0..(Len(grid) - 1)
  /\ out' = [x \in 0..(Len(grid) - 1) |-> None]
  /\ writes' = [x \in 0..(Len(grid) - 1) |-> 0]
  /\ UNCHANGED <<panic, args, width, height, grid, ticks>>

\* Results collected one slot too low: items 0 and 1 share slot 0.
slot_shifted(x) == IF x = 0 THEN 0 ELSE x - 1

\* The slot of the collected vector that the result of item x goes to.
slot(x) == x

\* What a task would read if the map updated self.grid as it went: the new
\* value where one is written, the old one elsewhere.
partly_updated == [k \in 1..Len(grid) |-> IF out[k - 1] # None THEN out[k - 1] ELSE grid[k]]

\* Task counting neighbours in the partly updated grid.
Task_reading_output(x) ==
  /\ phase = "ticking"
  /\ x \in pending
  /\ width # 0 /\ height # 0
  /\ pending' = pending \ {x}
  /\ out' = [out EXCEPT ![slot(x)] =
               compute_cell(partly_updated, width, height, x, get(next_grid, x))]
  /\ writes' = [writes EXCEPT ![slot(x)] = @ + 1]
  /\ UNCHANGED <<phase, panic, args, width, height, grid, next_grid, strategy, pre, ticks>>

\* Task storing its result in self.grid as well, while other tasks run.
Task_in_place(x) ==
  /\ phase = "ticking"
  /\ x \in pending
  /\ width # 0 /\ height # 0
  /\ pending' = pending \ {x}
  /\ out' = [out EXCEPT ![slot(x)] =
               compute_cell(grid, width, height, x, get(next_grid, x))]
  /\ grid' = [grid EXCEPT ![x + 1] =
               compute_cell(grid, width, height, x, get(next_grid, x))]
  /\ writes' = [writes EXCEPT ![slot(x)] = @ + 1]
  /\ UNCHANGED <<phase, panic, args, width, height, next_grid, strategy, pre, ticks>>

\* One task of the parallel map: the closure runs on item (x, cell) and its
\* result is collected.  x / self.width panics when width = 0; with
\* height = 0 the usize subtraction height - 1 panics in a debug build.
Task(x) ==
  /\ phase = "ticking"
  /\ x \in pending
  /\ IF width = 0
     THEN /\ phase' = "panicked"
          /\ panic' = "attempt to divide by zero"
          /\ UNCHANGED <<pending, out, writes>>
     ELSE \/ /\ height = 0
             /\ phase' = "panicked"
             /\ panic' = "attempt to subtract with overflow"
             /\ UNCHANGED <<pending, out, writes>>
          \/ /\ pending' = pending \ {x}
             /\ out' = [out EXCEPT ![slot(x)] =
                          compute_cell(grid, width, height, x, get(next_grid, x))]
             /\ writes' = [writes EXCEPT ![slot(x)] = @ + 1]
             /\ UNCHANGED <<phase, panic>>
  /\ UNCHANGED <<args, width, height, grid, next_grid, strategy, pre, ticks>>

\* TickFinish storing a grid one cell short.
TickFinish_dropping_last ==
  /\ phase = "ticking"
  /\ pending = {}
  /\ phase' = "ready"
  /\ grid' = [k \in 1..(Len(next_grid) - 1) |-> out[k - 1]]
  /\ ticks' = ticks + 1
  /\ UNCHANGED <<panic, args, width, height, next_grid, pending, out, writes,
                 strategy, pre>>

\* collect() has every item; tick() stores the result in self.grid.
TickFinish ==
  /\ phase = "ticking"
  /\ pending = {}
  /\ phase' = "ready"
  /\ grid' = [k \in 1..Len(next_grid) |-> out[k - 1]]
  /\ ticks' = ticks + 1
  /\ UNCHANGED <<panic, args, width, height, next_grid, pending, out, writes,
                 strategy, pre>>

Next ==
  \/ New
  \/ TickStart
  \/ \E x \in pending : Task(x)
  \/ TickFinish

Spec == Init /\ [][Next]_vars

\* ------------------------------------------------------------------ claims
\* What the claims compare the code with.

\* The number of Alive cells among the Moore neighbours of (row, col) that lie
\* inside the width x height grid g.
MooreCount(g, w, h, row, col) ==
  Cardinality({ d \in ({-1, 0, 1} \X {-1, 0, 1}) \ {<<0, 0>>} :
                  /\ 0 <= row + d[1] /\ row + d[1] < h
                  /\ 0 <= col + d[2] /\ col + d[2] < w
                  /\ g[(row + d[1]) * w + (col + d[2]) + 1] \in Alive })

\* The rule table: (current, neighbour count) -> next.
RuleTable(cell, n) ==
  CASE cell \in Alive /\ n \in {0, 1} -> DeadUnderpopulation
    [] cell \in Alive /\ n \in 4..8   -> DeadOverpopulation
    [] cell \in Dead /\ n = 3         -> AliveReproduction
    [] cell \in Alive /\ n \in {2, 3} -> AliveRemains
    [] cell \in Dead /\ n # 3         -> DeadRemains

\* G' of a width x height grid G: every cell by the rule table, cell and
\* count taken from G.
Generation(G, w, h) ==
  [k \in 1..Len(G) |->
    RuleTable(G[k], MooreCount(G, w, h, (k - 1) \div w, (k - 1) % w))]

\* A tick() has completed on a game with at least one cell.
Ticked == phase = "ready" /\ ticks >= 1
NonEmpty == width >= 1 /\ height >= 1

\* C1: one tick() leaves get_grid() equal to the grid whose every cell i is
\* the rule applied to the pre-tick cell i and the pre-tick count of its
\* live neighbours; the 3x4 grid of test_game_rules becomes the grid the
\* test expects.
C1_TickIsGenerationOfPreTickGrid ==
  (Ticked /\ NonEmpty) =>
    /\ get_grid = Generation(pre, width, height)
    /\ (pre = start_grid /\ width = test_width /\ height = test_height)
         => get_grid = test_next_grid

C1_Witness ==
  /\ Ticked
  /\ ticks = 1
  /\ args = [width |-> test_width, height |-> test_height,
             init |-> "Custom", grid |-> start_grid]
  /\ get_grid = test_next_grid

\* C2: the rule compute_next applies is the rule table, for each of the 5
\* cell values and each count 0..8, and yields nothing but the table's
\* result; it is the rule by which every cell of a ticked grid was made.
C2_RuleMatchesTable ==
  Ticked =>
    /\ \A c \in Cell, n \in 0..8 :
         next_state(c, n) = RuleTable(c, n) /\ next_state(c, n) \in Cell
    /\ \A x \in DOMAIN out :
         out[x] = RuleTable(get(next_grid, x),
                            live_neighbour_count1(pre, width, height,
                                                  x \div width, x % width))

\* A Dead(Overpopulation) centre with 4 live neighbours collapsed to
\* Dead(Remains).
C2_Witness ==
  /\ Ticked
  /\ width = 3 /\ height = 3
  /\ pre[5] = DeadOverpopulation
  /\ live_neighbour_count1(pre, width, height, 1, 1) = 4
  /\ get_grid[5] = DeadRemains

\* C3: for every cell of a grid with width, height >= 1 the count of
\* live_neighbour_count1 is the number of Alive cells among the Moore
\* neighbours inside the grid (none by wrapping); the cell of a 1x1 grid has
\* count 0, so Alive becomes Dead(Underpopulation) and Dead stays
\* Dead(Remains).
C3_CountIsClippedMooreCount ==
  (phase = "ready" /\ NonEmpty) =>
    /\ \A row \in 0..(height - 1), col \in 0..(width - 1) :
         live_neighbour_count1(grid, width, height, row, col)
           = MooreCount(grid, width, height, row, col)
    /\ (width = 1 /\ height = 1) =>
         /\ live_neighbour_count1(grid, width, height, 0, 0) = 0
         /\ ticks >= 1 =>
              get_grid = <<IF pre[1] \in Alive THEN DeadUnderpopulation
                           ELSE DeadRemains>>

\* A 3x3 grid with every cell alive: corners count 3, edges 5, the centre 8.
C3_Witness ==
  /\ phase = "ready"
  /\ width = 3 /\ height = 3
  /\ \A k \in 1..9 : grid[k] \in Alive
  /\ live_neighbour_count1(grid, width, height, 0, 0) = 3
  /\ live_neighbour_count1(grid, width, height, 1, 0) = 5
  /\ live_neighbour_count1(grid, width, height, 1, 1) = 8

\* The execution strategies the claims name, and the row-major sequential
\* evaluation: cell x of the output buffer from the untouched input G.
NamedStrategies == {"Sequential", "DataParallel", "WorkerPool"}

RECURSIVE sequential_from(_, _, _, _, _)
sequential_from(G, w, h, x, buffer) ==
  IF x >= Len(G) THEN buffer
  ELSE sequential_from(G, w, h, x + 1,
                       Append(buffer, compute_cell(G, w, h, x, G[x + 1])))

sequential(G, w, h) == sequential_from(G, w, h, 0, <<>>)

C5_TasksReadPreTickGrid ==
  phase = "ticking" =>
    /\ grid = pre
    /\ next_grid = pre
    /\ \A x \in (DOMAIN out) \ pending :
         out[x] = compute_cell(pre, width, height, x, pre[x + 1])

\* Some cells are done, some are not, and a done cell differs from its
\* pre-tick value while a pending neighbour is still to be computed.
C5_Witness ==
  /\ phase = "ticking"
  /\ pending # {}
  /\ \E x \in (DOMAIN out) \ pending :
       /\ out[x] # pre[x + 1]
       /\ \E y \in pending : y \in {x - 1, x + 1}

\* C6: once constructed, and after any number of ticks, get_grid().len() is
\* width * height, and width and height are the values passed to new.
C6_LengthIsWidthTimesHeight ==
  phase \in {"ready", "ticking"} =>
    /\ Len(get_grid) = width * height
    /\ width = args.width
    /\ height = args.height

C6_Witness ==
  /\ Ticked
  /\ ticks >= 2
  /\ width = test_width /\ height = test_height
  /\ Len(get_grid) = test_width * test_height

\* C7: new with Custom(grid) fails, with the panic of its assertion and no
\* Game, exactly when grid.len() # width * height; otherwise it returns a
\* Game whose get_grid() is the supplied grid.
C7_CustomFailsIffLengthDiffers ==
  args.init = "Custom" =>
    /\ phase = "panicked" <=> Len(args.grid) # args.width * args.height
    /\ phase = "panicked" =>
         /\ panic = "custom grid has expected dimensions"
         /\ width = 0 /\ height = 0 /\ grid = <<>> /\ ticks = 0
    /\ (phase = "ready" /\ ticks = 0) =>
         /\ get_grid = args.grid
         /\ width = args.width /\ height = args.height

C7_Witness ==
  /\ phase = "panicked"
  /\ args.init = "Custom"
  /\ args.grid = start_grid
  /\ args.width * args.height # Len(args.grid)

\* C8 as claimed: new with width = 0 or height = 0 returns no Game.
C8_ZeroDimensionRejected ==
  (phase # "start" /\ (args.width = 0 \/ args.height = 0)) => phase = "panicked"

\* C8 as amended: new with width = 0 or height = 0 is not rejected; it
\* returns a Game whose grid is empty (Random always, Custom when the
\* supplied grid is empty), tick() on it runs no task and leaves the grid
\* empty, and no tick() of any game reaches x / width, x % width, width - 1
\* or height - 1 with a zero dimension.
C8_ZeroDimensionGivesEmptyGrid ==
  /\ (phase # "start" /\ (args.width = 0 \/ args.height = 0)) =>
       /\ phase = "panicked" <=> (args.init = "Custom" /\ args.grid # <<>>)
       /\ grid = <<>>
       /\ pending = {}
  /\ (phase = "ticking" /\ pending # {}) => (width >= 1 /\ height >= 1)
  /\ panic \notin {"attempt to divide by zero", "attempt to subtract with overflow"}

C8_Witness ==
  /\ Ticked
  /\ args.init = "Random"
  /\ width = 0 /\ height = 2
  /\ get_grid = <<>>

\* C9: two grids of the same width and height that agree on Alive versus
\* Dead at every index are ticked to the same grid, sub-states included.
SameLife(G1, G2) ==
  /\ Len(G1) = Len(G2)
  /\ \A k \in 1..Len(G1) : (G1[k] \in Alive) <=> (G2[k] \in Alive)

\* The grid that agrees with G on Alive versus Dead and is tagged Remains.
Untagged(G) ==
  [k \in 1..Len(G) |-> IF G[k] \in Alive THEN AliveRemains ELSE DeadRemains]

C9_CauseNeverFeedsBack ==
  Ticked =>
    /\ get_grid = sequential(Untagged(pre), width, height)
    /\ Len(pre) <= MaxCustomLen =>
         \A G2 \in [1..Len(pre) -> Cell] :
           SameLife(pre, G2) => sequential(G2, width, height) = get_grid

\* The pre-tick grid carried a cause tag on a cell that stayed as it was.
C9_Witness ==
  /\ Ticked
  /\ width = 3 /\ height = 3
  /\ pre[5] = AliveReproduction
  /\ get_grid[5] = AliveRemains
  /\ get_grid = sequential(Untagged(pre), width, height)

\* C10: during a tick every index of [0, width * height) is written by one
\* task only, at most once while the tick runs and exactly once when it has
\* finished, and the value computed for index i is at position i of the new
\* grid.
C10_EachIndexWrittenOnce ==
  (phase = "ticking" \/ Ticked) =>
    /\ DOMAIN out = 0..(width * height - 1)
    /\ DOMAIN writes = DOMAIN out
    /\ \A x \in DOMAIN out :
         /\ writes[x] = (IF x \in pending THEN 0 ELSE 1)
         /\ (out[x] = None) <=> (x \in pending)
    /\ Ticked =>
         /\ pending = {}
         /\ \A x \in DOMAIN out :
              get_grid[x + 1] = compute_cell(pre, width, height, x, pre[x + 1])

\* Index 0 is still to be written while the last index already is.
C10_Witness ==
  /\ phase = "ticking"
  /\ Len(pre) = test_width * test_height
  /\ 0 \in pending
  /\ writes[Len(pre) - 1] = 1
  /\ out[Len(pre) - 1] # None

====
